---- MODULE Spec2Model ----
(***************************************************************************)
(* Model of the enforce-direct-access checker (packages/swc/src/           *)
(* transform.rs): the path resolver build_expression_path, the two rules   *)
(* handle_optional_chain_expr and handle_destructuring, and the pre-order  *)
(* walk driven by visit_mut_expr / visit_mut_var_declarator.               *)
(***************************************************************************)
EXTENDS Integers, Sequences, FiniteSets, TLC

(***************************************************************************)
(* Bounds of the model.                                                    *)
(***************************************************************************)
\* longest member chain (number of links above the root) of a walked expression
MaxDepth == 3
\* longest member chain of a declarator's initializer
MaxInitDepth == 1
\* most bindings in one object pattern
MaxProps == 2
\* longest configured `paths` list
MaxPaths == 2

\* property / binding names that occur in the trees
Syms == {"env", "API_KEY"}
\* the strings a configuration may list
PathPool == {"process.env", "process.env.API_KEY"}

(***************************************************************************)
(* Syntax tree (the swc_core::ecma::ast node shapes the code matches on).  *)
(***************************************************************************)
Ident(s) == [type |-> "Ident", sym |-> s]
MetaProp(k) == [type |-> "MetaProp", kind |-> k]
This == [type |-> "This"]
Lit(v) == [type |-> "Lit", value |-> v]
\* MemberProp::Ident / MemberProp::Computed / MemberProp::PrivateName
PropIdent(s) == [type |-> "Ident", sym |-> s]
PropComputed(e) == [type |-> "Computed", expr |-> e]
PropPrivate(s) == [type |-> "PrivateName", name |-> s]
\* MemberExpr (also the payload of OptChainBase::Member)
Member(o, p) == [type |-> "Member", obj |-> o, prop |-> p]
\* OptChainBase::Call
OptCall(c) == [type |-> "Call", callee |-> c]
\* Expr::OptChain
OptChain(b) == [type |-> "OptChain", base |-> b]
\* Option<T>
NoneV == [some |-> FALSE]
SomeV(x) == [some |-> TRUE, v |-> x]
\* Pat::Object / Pat::Ident, ObjectPatProp::KeyValue / ::Assign
ObjectPat(ps) == [type |-> "Object", props |-> ps]
BindingIdent(s) == [type |-> "Ident", sym |-> s]
KeyValue(k, v) == [type |-> "KeyValue", key |-> k, value |-> v]
Assign(s) == [type |-> "Assign", key |-> s]
PropNameIdent(s) == [type |-> "Ident", sym |-> s]
PropNameStr(s) == [type |-> "Str", value |-> s]
VarDeclarator(n, i) == [type |-> "VarDeclarator", name |-> n, init |-> i]

(***************************************************************************)
(* The bounded sets the trees and configurations are drawn from.           *)
(***************************************************************************)
\* one link of a member chain: what is put around the expression below it
IdentLinks ==
    {[k |-> "Member", prop |-> PropIdent(s)] : s \in Syms}
        \cup {[k |-> "OptMember", prop |-> PropIdent(s)] : s \in Syms}
WalkLinks ==
    IdentLinks \cup {[k |-> "Member", prop |-> PropComputed(Lit("env"))],
                     [k |-> "OptMember", prop |-> PropComputed(Lit("env"))],
                     [k |-> "OptCall", prop |-> PropIdent("env")]}
AllLinks ==
    WalkLinks \cup {[k |-> "Member", prop |-> PropPrivate("env")],
                    [k |-> "OptMember", prop |-> PropPrivate("env")]}

Wrap(l, e) ==
    CASE l.k = "Member" -> Member(e, l.prop)
      [] l.k = "OptMember" -> OptChain(Member(e, l.prop))
      [] l.k = "OptCall" -> OptChain(OptCall(e))

RECURSIVE ChainsOfDepth(_, _, _)
ChainsOfDepth(roots, links, n) ==
    IF n = 0 THEN roots
    ELSE {Wrap(l, e) : l \in links, e \in ChainsOfDepth(roots, links, n - 1)}

Chains(roots, links, d) == UNION {ChainsOfDepth(roots, links, n) : n \in 0..d}

WalkRoots == {Ident("process"), This}
AllRoots == {Ident("process"), This, MetaProp("ImportMeta"), MetaProp("NewTarget")}

WalkExprs == Chains(WalkRoots, WalkLinks, MaxDepth)
InitExprs == Chains(WalkRoots, WalkLinks, MaxInitDepth)
ResolveExprs == Chains(AllRoots, AllLinks, MaxDepth)

PatProps ==
    {KeyValue(PropNameIdent("env"), BindingIdent("x")),
     KeyValue(PropNameStr("env"), BindingIdent("x")),
     Assign("env"), Assign("API_KEY")}

RECURSIVE SeqsUpTo(_, _)
SeqsUpTo(S, n) ==
    IF n = 0 THEN {<<>>}
    ELSE LET shorter == SeqsUpTo(S, n - 1)
         IN shorter \cup {Append(q, x) : q \in shorter, x \in S}

Pats == {ObjectPat(ps) : ps \in SeqsUpTo(PatProps, MaxProps)} \cup {BindingIdent("x")}
Declarators ==
    {VarDeclarator(p, SomeV(e)) : p \in Pats, e \in InitExprs}
        \cup {VarDeclarator(p, NoneV) : p \in Pats}

Trees == WalkExprs \cup Declarators
ConfigLists == SeqsUpTo(PathPool, MaxPaths)

VARIABLES
    tree,          \* the syntax tree handed to the checker (never modified)
    config_paths,  \* EnforceDirectAccessTransformer.config_paths: HashSet<String>
    iter_order,    \* the order in which this instance's HashSet iterates
    stack,         \* nodes whose visit is pending, next one first
    diags,         \* the diagnostics emitted so far by this run, in order
    last,          \* history: what the latest visit did
    trace,         \* history: the visits and rule invocations of this run
    run,           \* 1 for the first run of the checker, 2 for a second one
    prev_diags     \* the diagnostics of the run before this one

vars == <<tree, config_paths, iter_order, stack, diags, last, trace, run, prev_diags>>

(***************************************************************************)
(* Diagnostics (crate::errors): one record per report_* call.              *)
(***************************************************************************)
report_optional_chaining_error(path, span) ==
    [kind |-> "optional_chaining", path |-> path, span |-> span]
report_destructuring_error(path, span) ==
    [kind |-> "destructuring", path |-> path, span |-> span]
report_destructuring_with_optional_error(path, span) ==
    [kind |-> "destructuring_with_optional", path |-> path, span |-> span]

(***************************************************************************)
(* Strings.                                                                *)
(***************************************************************************)
\* parts.join(".")
RECURSIVE join(_, _)
join(parts, sep) ==
    IF parts = <<>> THEN ""
    ELSE IF Len(parts) = 1 THEN parts[1]
    ELSE parts[1] \o sep \o join(Tail(parts), sep)

\* format!("{}.{}", a, b)
format_path(a, b) == a \o "." \o b

(***************************************************************************)
(* build_expression_path: Option<(String, bool)>                           *)
(***************************************************************************)
None == [some |-> FALSE]
Some(path, has_optional) == [some |-> TRUE, path |-> path, has_optional |-> has_optional]

\* a plausible slip: parts.push(x) in place of parts.insert(0, x)
insert_front_pushes(parts, x) == Append(parts, x)

\* parts.insert(0, x)
insert_front(parts, x) == <<x>> \o parts

\* a plausible slip: a computed key is skipped over and the walk goes on
computed_prop_skipped(obj, parts, has_optional) ==
    [done |-> FALSE, current |-> obj, parts |-> parts, has_optional |-> has_optional]

\* the computed-key branch of either member arm: return None
computed_prop(obj, parts, has_optional) == [done |-> TRUE, result |-> None]

\* has_optional = true
opt_chain_flag(has_optional) == TRUE

\* one turn of the loop: the match on `current`
loop_step(current, parts, has_optional) ==
    CASE current.type = "Member" ->
           IF current.prop.type = "Ident"
           THEN [done |-> FALSE, current |-> current.obj,
                 parts |-> insert_front(parts, current.prop.sym),
                 has_optional |-> has_optional]
           ELSE IF current.prop.type = "Computed"
           THEN computed_prop(current.obj, parts, has_optional)
           ELSE [done |-> TRUE, result |-> None]
      [] current.type = "OptChain" ->
           LET flag == opt_chain_flag(has_optional)
           IN IF current.base.type = "Member"
              THEN IF current.base.prop.type = "Ident"
                   THEN [done |-> FALSE, current |-> current.base.obj,
                         parts |-> insert_front(parts, current.base.prop.sym),
                         has_optional |-> flag]
                   ELSE IF current.base.prop.type = "Computed"
                   THEN computed_prop(current.base.obj, parts, flag)
                   ELSE [done |-> TRUE, result |-> None]
              ELSE [done |-> TRUE, result |-> None]
      [] current.type = "Ident" ->
           [done |-> TRUE,
            result |-> [brk |-> TRUE, parts |-> insert_front(parts, current.sym),
                        has_optional |-> has_optional]]
      [] current.type = "MetaProp" ->
           [done |-> TRUE,
            result |-> [brk |-> TRUE,
                        parts |-> IF current.kind = "ImportMeta"
                                  THEN insert_front(insert_front(parts, "meta"), "import")
                                  ELSE insert_front(insert_front(parts, "target"), "new"),
                        has_optional |-> has_optional]]
      [] OTHER -> [done |-> TRUE, result |-> None]

RECURSIVE path_loop(_, _, _)
path_loop(current, parts, has_optional) ==
    LET s == loop_step(current, parts, has_optional)
    IN IF ~s.done THEN path_loop(s.current, s.parts, s.has_optional)
       ELSE IF s.result = None THEN None
       ELSE IF s.result.parts = <<>> THEN None
       ELSE Some(join(s.result.parts, "."), s.result.has_optional)

build_expression_path(expr) == path_loop(expr, <<>>, FALSE)

(***************************************************************************)
(* What one rule invocation did: the diagnostics it emitted, and whether   *)
(* it called build_expression_path and with what result.                   *)
(***************************************************************************)
Returned(emitted) == [emitted |-> emitted, called |-> FALSE, result |-> None]
Resolved(emitted, r) == [emitted |-> emitted, called |-> TRUE, result |-> r]

(***************************************************************************)
(* handle_optional_chain_expr                                              *)
(***************************************************************************)
\* a plausible slip: the loop reports every hit instead of returning at the first
RECURSIVE scan_config_paths_no_return(_, _, _, _)
scan_config_paths_no_return(order, object_path, full_path, span) ==
    IF order = <<>> THEN <<>>
    ELSE LET config_path == Head(order)
             rest == scan_config_paths_no_return(Tail(order), object_path, full_path, span)
         IN IF object_path = config_path
               \/ (full_path.some /\ full_path.v = config_path)
            THEN <<report_optional_chaining_error(config_path, span)>> \o rest
            ELSE rest

\* for config_path in &self.config_paths { ... }, in the set's iteration order
RECURSIVE scan_config_paths(_, _, _, _)
scan_config_paths(order, object_path, full_path, span) ==
    IF order = <<>> THEN <<>>
    ELSE LET config_path == Head(order)
         IN IF object_path = config_path
            THEN <<report_optional_chaining_error(config_path, span)>>
            ELSE IF full_path.some /\ full_path.v = config_path
            THEN <<report_optional_chaining_error(config_path, span)>>
            ELSE scan_config_paths(Tail(order), object_path, full_path, span)

\* the body below the emptiness guard
optional_chain_checks(expr, span) ==
    IF expr.type = "OptChain" /\ expr.base.type = "Member"
    THEN LET member == expr.base
             r == build_expression_path(member.obj)
         IN IF r.some
            THEN LET object_path == r.path
                     property_name == IF member.prop.type = "Ident"
                                      THEN SomeV(member.prop.sym)
                                      ELSE NoneV
                     full_path == IF property_name.some
                                  THEN SomeV(format_path(object_path, property_name.v))
                                  ELSE NoneV
                 IN Resolved(scan_config_paths(iter_order, object_path, full_path, span), r)
            ELSE Resolved(<<>>, r)
    ELSE Returned(<<>>)

handle_optional_chain_expr(expr, span) ==
    IF config_paths = {} THEN Returned(<<>>)
    ELSE optional_chain_checks(expr, span)

(***************************************************************************)
(* handle_destructuring                                                    *)
(***************************************************************************)
\* a plausible slip: the per-property loop stops at its first report
RECURSIVE check_props_first_only(_, _, _, _)
check_props_first_only(props, init_path, has_optional, span) ==
    IF props = <<>> THEN <<>>
    ELSE LET prop == Head(props)
             property_name ==
                 IF prop.type = "KeyValue"
                 THEN IF prop.key.type = "Ident" THEN SomeV(prop.key.sym) ELSE NoneV
                 ELSE IF prop.type = "Assign" THEN SomeV(prop.key)
                 ELSE NoneV
         IN IF property_name.some
               /\ format_path(init_path, property_name.v) \in config_paths
               /\ ~has_optional
            THEN <<report_destructuring_error(format_path(init_path, property_name.v), span)>>
            ELSE check_props_first_only(Tail(props), init_path, has_optional, span)

\* for prop in &object_pat.props { ... }
RECURSIVE check_props(_, _, _, _)
check_props(props, init_path, has_optional, span) ==
    IF props = <<>> THEN <<>>
    ELSE LET prop == Head(props)
             rest == check_props(Tail(props), init_path, has_optional, span)
         IN IF prop.type = "KeyValue"
            THEN LET property_name == IF prop.key.type = "Ident"
                                      THEN SomeV(prop.key.sym)
                                      ELSE NoneV
                 IN IF property_name.some
                    THEN LET full_path == format_path(init_path, property_name.v)
                         IN IF full_path \in config_paths /\ ~has_optional
                            THEN <<report_destructuring_error(full_path, span)>> \o rest
                            ELSE rest
                    ELSE rest
            ELSE IF prop.type = "Assign"
            THEN LET full_path == format_path(init_path, prop.key)
                 IN IF full_path \in config_paths /\ ~has_optional
                    THEN <<report_destructuring_error(full_path, span)>> \o rest
                    ELSE rest
            ELSE rest

\* a plausible slip: the optional-chained-initializer check is missing
optional_init_check_missing(init_path, has_optional) == FALSE

\* has_optional && self.config_paths.contains(&init_path)
optional_init_check(init_path, has_optional) ==
    has_optional /\ init_path \in config_paths

\* the body below the emptiness guard
destructuring_checks(pat, init, span) ==
    IF pat.type = "Object"
    THEN LET r == build_expression_path(init)
         IN IF r.some
            THEN IF optional_init_check(r.path, r.has_optional)
                 THEN Resolved(<<report_destructuring_with_optional_error(r.path, span)>>, r)
                 ELSE Resolved(check_props(pat.props, r.path, r.has_optional, span), r)
            ELSE Resolved(<<>>, r)
    ELSE Returned(<<>>)

\* a plausible slip: the emptiness guard is missing
handle_destructuring_unguarded(pat, init, span) == destructuring_checks(pat, init, span)

handle_destructuring(pat, init, span) ==
    IF config_paths = {} THEN Returned(<<>>)
    ELSE destructuring_checks(pat, init, span)

(***************************************************************************)
(* The walk: visit_mut_expr and visit_mut_var_declarator, each followed by *)
(* visit_mut_children_with. A node's span is modelled by its position in   *)
(* the tree (the child indices from the root).                             *)
(***************************************************************************)
Entry(node, span) == [node |-> node, span |-> span]

\* MemberExpr's expression children: obj, then the expression of a computed key
member_children(member, span) ==
    <<Entry(member.obj, Append(span, 1))>>
        \o (IF member.prop.type = "Computed"
            THEN <<Entry(member.prop.expr, Append(span, 2))>>
            ELSE <<>>)

\* expr.visit_mut_children_with(self): the expressions directly below expr
expr_children(expr, span) ==
    CASE expr.type = "Member" -> member_children(expr, span)
      [] expr.type = "OptChain" ->
           IF expr.base.type = "Member"
           THEN member_children(expr.base, span)
           ELSE <<Entry(expr.base.callee, Append(span, 1))>>
      [] OTHER -> <<>>

\* declarator.visit_mut_children_with(self): the pattern holds no expression
\* in the trees drawn here, the initializer is the second child
declarator_children(declarator, span) ==
    IF declarator.init.some
    THEN <<Entry(declarator.init.v, Append(span, 2))>>
    ELSE <<>>

Visit(rule, outcome, children) ==
    [rule |-> rule, emitted |-> outcome.emitted, called |-> outcome.called,
     result |-> outcome.result, children |-> children]

\* a plausible slip: the children are skipped once the rule has reported
visit_mut_expr_stops_on_report(expr, span) ==
    IF expr.type = "OptChain"
    THEN LET o == handle_optional_chain_expr(expr, span)
         IN Visit("optional_chain", o,
                  IF o.emitted = <<>> THEN expr_children(expr, span) ELSE <<>>)
    ELSE Visit("none", Returned(<<>>), expr_children(expr, span))

visit_mut_expr(expr, span) ==
    IF expr.type = "OptChain"
    THEN Visit("optional_chain", handle_optional_chain_expr(expr, span),
               expr_children(expr, span))
    ELSE Visit("none", Returned(<<>>), expr_children(expr, span))

\* a plausible slip: the declarator's children are not visited after the rule ran
visit_mut_var_declarator_returns(declarator, span) ==
    IF declarator.name.type = "Object" /\ declarator.init.some
    THEN Visit("destructuring",
               handle_destructuring(declarator.name, declarator.init.v, span), <<>>)
    ELSE Visit("none", Returned(<<>>), declarator_children(declarator, span))

visit_mut_var_declarator(declarator, span) ==
    IF declarator.name.type = "Object" /\ declarator.init.some
    THEN Visit("destructuring",
               handle_destructuring(declarator.name, declarator.init.v, span),
               declarator_children(declarator, span))
    ELSE Visit("none", Returned(<<>>), declarator_children(declarator, span))

Events(v, span) ==
    <<[ev |-> "visit", rule |-> "none", span |-> span]>>
        \o (IF v.rule = "none" THEN <<>>
            ELSE <<[ev |-> "rule", rule |-> v.rule, span |-> span]>>)

Record(v, e) ==
    /\ diags' = diags \o v.emitted
    /\ stack' = v.children \o Tail(stack)
    /\ last' = [rule |-> v.rule, node |-> e.node, span |-> e.span,
                emitted |-> v.emitted, called |-> v.called, result |-> v.result]
    /\ trace' = trace \o Events(v, e.span)
    /\ UNCHANGED <<tree, config_paths, iter_order, run, prev_diags>>

\* the pending node is an expression / a variable declarator
CanVisitExpr == stack # <<>> /\ Head(stack).node.type # "VarDeclarator"
CanVisitVarDeclarator == stack # <<>> /\ Head(stack).node.type = "VarDeclarator"

VisitExpr ==
    /\ CanVisitExpr
    /\ LET e == Head(stack) IN Record(visit_mut_expr(e.node, e.span), e)

VisitVarDeclarator ==
    /\ CanVisitVarDeclarator
    /\ LET e == Head(stack) IN Record(visit_mut_var_declarator(e.node, e.span), e)

(***************************************************************************)
(* Construction and the specifications.                                    *)
(***************************************************************************)
\* the orders in which a HashSet holding S can iterate (the hasher is seeded
\* per instance, so every order is possible)
IterOrders(S) ==
    {o \in [1..Cardinality(S) -> S] : \A i, j \in 1..Cardinality(S) : o[i] = o[j] => i = j}

\* config.paths.into_iter().collect(): the list's elements, once each
collect(paths) == {paths[i] : i \in 1..Len(paths)}

Start == [rule |-> "start", node |-> tree, span |-> <<>>,
          emitted |-> <<>>, called |-> FALSE, result |-> None]

\* EnforceDirectAccessTransformer::new(config): the instances it can build
new(paths) ==
    {[config_paths |-> collect(paths), iter_order |-> o] : o \in IterOrders(collect(paths))}

Instances == UNION {new(paths) : paths \in ConfigLists}

Init ==
    /\ tree \in Trees
    /\ \E self \in Instances :
          /\ config_paths = self.config_paths
          /\ iter_order = self.iter_order
    /\ stack = <<Entry(tree, <<>>)>>
    /\ diags = <<>>
    /\ last = Start
    /\ trace = <<>>
    /\ run = 1
    /\ prev_diags = <<>>

Next == VisitExpr \/ VisitVarDeclarator

Spec == Init /\ [][Next]_vars

\* a second checker instance, built from the same configuration, over the same tree
Rerun ==
    /\ stack = <<>>
    /\ run = 1
    /\ run' = 2
    /\ prev_diags' = diags
    /\ \E self \in Instances :
          /\ self.config_paths = config_paths
          /\ iter_order' = self.iter_order
    /\ stack' = <<Entry(tree, <<>>)>>
    /\ diags' = <<>>
    /\ last' = Start
    /\ trace' = <<>>
    /\ UNCHANGED <<tree, config_paths>>

NextRerun == VisitExpr \/ VisitVarDeclarator \/ Rerun

SpecRerun == Init /\ [][NextRerun]_vars

\* the resolver alone, applied to one expression
ResolvePath ==
    /\ stack # <<>>
    /\ stack' = <<>>
    /\ last' = [rule |-> "resolve", node |-> tree, span |-> <<>>, emitted |-> <<>>,
                called |-> TRUE, result |-> build_expression_path(tree)]
    /\ UNCHANGED <<tree, config_paths, iter_order, diags, trace, run, prev_diags>>

InitResolve ==
    /\ tree \in ResolveExprs
    /\ config_paths = {}
    /\ iter_order = <<>>
    /\ stack = <<Entry(tree, <<>>)>>
    /\ diags = <<>>
    /\ last = Start
    /\ trace = <<>>
    /\ run = 1
    /\ prev_diags = <<>>

NextResolve == ResolvePath

SpecResolve == InitResolve /\ [][NextResolve]_vars

(***************************************************************************)
(* Definitions the properties are stated with.                             *)
(***************************************************************************)
\* the resolver's contract, by structural recursion on the expression
RECURSIVE RefResolve(_)
RefResolve(e) ==
    CASE e.type = "Ident" -> Some(e.sym, FALSE)
      [] e.type = "MetaProp" ->
           Some(IF e.kind = "ImportMeta" THEN "import.meta" ELSE "new.target", FALSE)
      [] e.type = "Member" /\ e.prop.type = "Ident" ->
           LET r == RefResolve(e.obj)
           IN IF r.some THEN Some(r.path \o "." \o e.prop.sym, r.has_optional) ELSE None
      [] e.type = "OptChain" /\ e.base.type = "Member" /\ e.base.prop.type = "Ident" ->
           LET r == RefResolve(e.base.obj)
           IN IF r.some THEN Some(r.path \o "." \o e.base.prop.sym, TRUE) ELSE None
      [] OTHER -> None

\* some link of the member chain of e has a computed key
RECURSIVE HasComputed(_)
HasComputed(e) ==
    CASE e.type = "Member" -> e.prop.type = "Computed" \/ HasComputed(e.obj)
      [] e.type = "OptChain" ->
           IF e.base.type = "Member"
           THEN e.base.prop.type = "Computed" \/ HasComputed(e.base.obj)
           ELSE HasComputed(e.base.callee)
      [] OTHER -> FALSE

\* the expression in front of an optional-chain node's last link
ObjectOf(e) == IF e.base.type = "Member" THEN e.base.obj ELSE e.base.callee

\* the name a destructured binding contributes, if any
BindingName(prop) ==
    IF prop.type = "Assign" THEN SomeV(prop.key)
    ELSE IF prop.type = "KeyValue" /\ prop.key.type = "Ident" THEN SomeV(prop.key.sym)
    ELSE NoneV

Count(seq, Test(_)) == Cardinality({i \in 1..Len(seq) : Test(seq[i])})

OnOptChainMember ==
    /\ last.rule = "optional_chain"
    /\ last.node.base.type = "Member"

OnDestructuring == last.rule = "destructuring"

(***************************************************************************)
(* C1. With an empty protected set a walk emits no diagnostic of any kind, *)
(* and neither rule gets as far as resolving a path: both                  *)
(* handle_optional_chain_expr and handle_destructuring return at once.     *)
(***************************************************************************)
C1_EmptyConfigIsSilent ==
    config_paths = {} =>
        /\ diags = <<>>
        /\ last.emitted = <<>>
        /\ ~last.called

\* a finished walk, under the empty set, on which both rules were invoked
C1_Witness ==
    /\ config_paths = {}
    /\ stack = <<>>
    /\ \E i \in 1..Len(trace) : trace[i].rule = "destructuring"
    /\ \E i \in 1..Len(trace) : trace[i].rule = "optional_chain"

(***************************************************************************)
(* C2. Under a non-empty protected set P, one invocation of the            *)
(* Optional-Chain Rule on an optional-chain member whose object resolves   *)
(* to object_path emits exactly one optional-chaining diagnostic (at the   *)
(* node's span, naming one of the candidates that is in P) if object_path  *)
(* is in P or the property is an identifier and object_path.property is in *)
(* P, also when both are in P, and emits nothing otherwise; so optional    *)
(* chaining one level below a protected path emits nothing.                *)
(***************************************************************************)
C2_OptionalChainRule ==
    (OnOptChainMember /\ config_paths # {} /\ RefResolve(last.node.base.obj).some) =>
        LET member == last.node.base
            object_path == RefResolve(member.obj).path
            candidates ==
                {object_path}
                    \cup (IF member.prop.type = "Ident"
                          THEN {object_path \o "." \o member.prop.sym}
                          ELSE {})
        IN IF candidates \cap config_paths # {}
           THEN /\ Len(last.emitted) = 1
                /\ last.emitted[1].kind = "optional_chaining"
                /\ last.emitted[1].span = last.span
                /\ last.emitted[1].path \in candidates \cap config_paths
           ELSE last.emitted = <<>>

\* process.env?.API_KEY with both process.env and process.env.API_KEY protected
C2_Witness ==
    /\ OnOptChainMember
    /\ last.node = OptChain(Member(Member(Ident("process"), PropIdent("env")),
                                   PropIdent("API_KEY")))
    /\ config_paths = {"process.env", "process.env.API_KEY"}
    /\ Len(last.emitted) = 1

(***************************************************************************)
(* C3. The Destructuring Rule, on a declarator whose initializer resolves  *)
(* to (init_path, has_optional), emits a "destructuring" diagnostic for a  *)
(* binding exactly when has_optional is false and init_path.name is in P:  *)
(* one diagnostic per matching binding, duplicates included, in the        *)
(* bindings' order, none for string-literal keys; and when has_optional is *)
(* true and init_path is not in P it emits nothing at all.                 *)
(***************************************************************************)
C3_DestructuringRule ==
    (OnDestructuring /\ RefResolve(last.node.init.v).some) =>
        LET r == RefResolve(last.node.init.v)
            props == last.node.name.props
            Matches(prop) ==
                /\ BindingName(prop).some
                /\ ~r.has_optional
                /\ (r.path \o "." \o BindingName(prop).v) \in config_paths
            matching == SelectSeq(props, Matches)
            IsBypass(d) == d.kind = "destructuring"
            bypass == SelectSeq(last.emitted, IsBypass)
        IN /\ Len(bypass) = Len(matching)
           /\ \A i \in 1..Len(bypass) :
                 /\ bypass[i].path = r.path \o "." \o BindingName(matching[i]).v
                 /\ bypass[i].span = last.span
           /\ (r.has_optional /\ r.path \notin config_paths) => last.emitted = <<>>

\* const { env, env: x } = process with process.env protected: two diagnostics
C3_Witness ==
    /\ OnDestructuring
    /\ last.node.init.v = Ident("process")
    /\ Len(last.node.name.props) = 2
    /\ Len(last.emitted) = 2
    /\ last.emitted[1] = last.emitted[2]
    /\ last.emitted[1].kind = "destructuring"

(***************************************************************************)
(* C4. When the initializer resolves through an optional chain to a path   *)
(* that is itself in P, the Destructuring Rule emits exactly one           *)
(* "destructuring_with_optional" diagnostic naming that path, at the       *)
(* declarator's span, and no per-property diagnostic, whatever the         *)
(* bindings are.                                                           *)
(***************************************************************************)
C4_OptionalInitFiresOnce ==
    (/\ OnDestructuring
     /\ RefResolve(last.node.init.v).some
     /\ RefResolve(last.node.init.v).has_optional
     /\ RefResolve(last.node.init.v).path \in config_paths) =>
        last.emitted =
            <<[kind |-> "destructuring_with_optional",
               path |-> RefResolve(last.node.init.v).path,
               span |-> last.span]>>

\* const { API_KEY } = process?.env with process.env and process.env.API_KEY protected
C4_Witness ==
    /\ OnDestructuring
    /\ last.node.init.v = OptChain(Member(Ident("process"), PropIdent("env")))
    /\ \E i \in 1..Len(last.node.name.props) : last.node.name.props[i] = Assign("API_KEY")
    /\ config_paths = {"process.env", "process.env.API_KEY"}
    /\ Len(last.emitted) = 1

(***************************************************************************)
(* C5, as claimed. A computed link anywhere in the chain of an             *)
(* optional-chain expression (its own last link included) or of a          *)
(* destructuring initializer means the rule emits nothing for that node.   *)
(***************************************************************************)
C5_ComputedNeverReported ==
    /\ (last.rule = "optional_chain" /\ HasComputed(last.node)) => last.emitted = <<>>
    /\ (OnDestructuring /\ HasComputed(last.node.init.v)) => last.emitted = <<>>

(***************************************************************************)
(* C5, amended. A computed link anywhere in the part a rule resolves (the  *)
(* expression in front of the optional-chain node's last link, or the      *)
(* destructuring initializer) means the rule emits nothing for that node.  *)
(* A computed key as the optional-chain member's own last link only leaves *)
(* full_path absent: the rule then emits one diagnostic naming object_path *)
(* exactly when object_path is in P.                                       *)
(***************************************************************************)
C5_ComputedInResolvedPart ==
    /\ (last.rule = "optional_chain" /\ HasComputed(ObjectOf(last.node))) =>
           last.emitted = <<>>
    /\ (OnDestructuring /\ HasComputed(last.node.init.v)) => last.emitted = <<>>
    /\ (/\ OnOptChainMember
        /\ last.node.base.prop.type = "Computed"
        /\ RefResolve(last.node.base.obj).some) =>
           LET object_path == RefResolve(last.node.base.obj).path
           IN IF object_path \in config_paths
              THEN last.emitted =
                       <<[kind |-> "optional_chaining", path |-> object_path,
                          span |-> last.span]>>
              ELSE last.emitted = <<>>

\* process.env["env"]?.API_KEY with process.env protected: nothing is emitted
C5_Witness ==
    /\ OnOptChainMember
    /\ last.node = OptChain(Member(Member(Member(Ident("process"), PropIdent("env")),
                                          PropComputed(Lit("env"))),
                                   PropIdent("API_KEY")))
    /\ "process.env" \in config_paths
    /\ last.called
    /\ last.emitted = <<>>

(***************************************************************************)
(* C7. build_expression_path agrees with the resolver's contract: Some     *)
(* only when every node down to the terminating identifier or              *)
(* meta-property is a member or optional-chain member with an identifier   *)
(* key; the path is then the non-empty "."-join of the segments in source  *)
(* order (import.meta / new.target leading), has_optional is true exactly  *)
(* when a link is an optional-chain node; otherwise None.                  *)
(***************************************************************************)
C7_ResolverAgrees ==
    last.rule = "resolve" =>
        /\ last.result = RefResolve(last.node)
        /\ last.result.some => last.result.path # ""

\* import.meta?.env.API_KEY resolves to ("import.meta.env.API_KEY", true)
C7_Witness ==
    /\ last.rule = "resolve"
    /\ last.result = Some("import.meta.env.API_KEY", TRUE)

(***************************************************************************)
(* C6. Two runs of the checker, built from the same configuration, over    *)
(* the same unmodified tree produce the identical ordered list of          *)
(* diagnostics (kinds, matched paths, spans, order).                       *)
(***************************************************************************)
C6_RunsAgree ==
    (run = 2 /\ stack = <<>>) => diags = prev_diags

\* the rule with the scan replaced by two membership lookups
LookupVariant(object_path, full_path, span) ==
    IF object_path \in config_paths
    THEN <<[kind |-> "optional_chaining", path |-> object_path, span |-> span]>>
    ELSE IF full_path.some /\ full_path.v \in config_paths
    THEN <<[kind |-> "optional_chaining", path |-> full_path.v, span |-> span]>>
    ELSE <<>>

(***************************************************************************)
(* C9. The Optional-Chain Rule's scan over the protected set is observably *)
(* equivalent to a membership lookup of object_path and then of full_path: *)
(* same number of diagnostics, same matched path, for every iteration      *)
(* order, also when both object_path and full_path are in the set.         *)
(***************************************************************************)
C9_ScanIsLookup ==
    (OnOptChainMember /\ config_paths # {} /\ last.result.some) =>
        LET member == last.node.base
            full_path == IF member.prop.type = "Ident"
                         THEN SomeV(last.result.path \o "." \o member.prop.sym)
                         ELSE NoneV
        IN last.emitted = LookupVariant(last.result.path, full_path, last.span)

\* the node at a position of the tree; positions that lead nowhere give Absent
Absent == [type |-> "Absent"]

Child(node, i) ==
    CASE node.type = "Member" /\ i = 1 -> node.obj
      [] node.type = "Member" /\ i = 2 /\ node.prop.type = "Computed" -> node.prop.expr
      [] node.type = "OptChain" /\ i = 1 -> ObjectOf(node)
      [] node.type = "OptChain" /\ i = 2 /\ node.base.type = "Member"
             /\ node.base.prop.type = "Computed" -> node.base.prop.expr
      [] node.type = "VarDeclarator" /\ i = 2 /\ node.init.some -> node.init.v
      [] OTHER -> Absent

RECURSIVE NodeAt(_, _)
NodeAt(node, pos) ==
    IF pos = <<>> THEN node ELSE NodeAt(Child(node, Head(pos)), Tail(pos))

\* the positions of the expression and declarator nodes at and below a node
RECURSIVE PositionsOf(_, _)
PositionsOf(node, pos) ==
    IF node = Absent THEN {}
    ELSE {pos} \cup PositionsOf(Child(node, 1), Append(pos, 1))
               \cup PositionsOf(Child(node, 2), Append(pos, 2))

RuleDue(node) ==
    IF node.type = "OptChain" THEN "optional_chain"
    ELSE IF node.type = "VarDeclarator" /\ node.name.type = "Object" /\ node.init.some
    THEN "destructuring"
    ELSE "none"

IsProperPrefix(p, q) == Len(p) < Len(q) /\ SubSeq(q, 1, Len(p)) = p

WalkInOrder ==
    \A i, j \in 1..Len(trace) :
        (IsProperPrefix(trace[i].span, trace[j].span)
            \/ (trace[i].span = trace[j].span /\ trace[i].ev = "visit" /\ trace[j].ev = "rule"))
        => i < j

WalkComplete ==
    LET positions == PositionsOf(tree, <<>>)
    IN /\ \A i \in 1..Len(trace) : trace[i].span \in positions
       /\ \A pos \in positions :
             LET due == RuleDue(NodeAt(tree, pos))
                 Visits(e) == e.ev = "visit" /\ e.span = pos
                 Rules(e) == e.ev = "rule" /\ e.span = pos
                 Due(e) == e.ev = "rule" /\ e.span = pos /\ e.rule = due
             IN /\ Count(trace, Visits) = 1
                /\ Count(trace, Rules) = IF due = "none" THEN 0 ELSE 1
                /\ Count(trace, Due) = Count(trace, Rules)

\* the expression and declarator nodes of a subtree, and those still to be visited
RECURSIVE Size(_)
Size(node) ==
    IF node = Absent THEN 0 ELSE 1 + Size(Child(node, 1)) + Size(Child(node, 2))

RECURSIVE Pending(_)
Pending(s) == IF s = <<>> THEN 0 ELSE Size(Head(s).node) + Pending(Tail(s))

IsVisit(e) == e.ev = "visit"

(***************************************************************************)
(* C8. The walk over a finite tree terminates; when it has, every          *)
(* expression and declarator node was visited exactly once, the            *)
(* Optional-Chain Rule was invoked exactly once on every optional-chain    *)
(* node and the Destructuring Rule exactly once on every object-pattern    *)
(* declarator with an initializer, and on no other node; a node's visit    *)
(* and rule come before anything below it, and the nodes below are visited *)
(* whether or not the rule emitted.                                        *)
(* Termination is stated by a variant: every step visits one node and      *)
(* leaves one node fewer to visit, and while a node is pending one of the  *)
(* two visits can be taken (each sets every variable, so its guard is its  *)
(* enabling condition); the walk ends after exactly Size(tree) visits.     *)
(***************************************************************************)
C8_WalkVisitsAll ==
    /\ [][Pending(stack') = Pending(stack) - 1]_vars
    /\ [](/\ Count(trace, IsVisit) + Pending(stack) = Size(tree)
          /\ (stack = <<>>) <=> (Pending(stack) = 0)
          /\ (stack # <<>>) => (CanVisitExpr \/ CanVisitVarDeclarator)
          /\ WalkInOrder
          /\ (stack = <<>> => WalkComplete))

\* process?.env?.API_KEY with both paths protected: the outer node reports, and
\* the node below it is still visited and reports too
C8_Witness ==
    /\ stack = <<>>
    /\ tree.type = "OptChain"
    /\ Len(diags) = 2
    /\ diags[1].span = <<>>
    /\ diags[2].span = <<1>>

\* an object-pattern declarator whose initializer is an optional-chain member
\* resolving to a protected path
MatchedByBothRules ==
    /\ tree.type = "VarDeclarator"
    /\ tree.name.type = "Object"
    /\ tree.init.some
    /\ tree.init.v.type = "OptChain"
    /\ RefResolve(tree.init.v).some
    /\ RefResolve(tree.init.v).path \in config_paths

(***************************************************************************)
(* C10, as claimed. When a declarator is matched by both rules (an object  *)
(* pattern whose initializer is an optional-chain member resolving to a    *)
(* protected path), the walk of that declarator emits one diagnostic, of   *)
(* a single kind, not one from each rule.                                  *)
(***************************************************************************)
C10_FirstMatchWins ==
    (stack = <<>> /\ MatchedByBothRules) =>
        /\ Len(diags) = 1
        /\ \A i, j \in 1..Len(diags) : diags[i].kind = diags[j].kind

(***************************************************************************)
(* C10, amended. The two rules run independently. For such a declarator    *)
(* the walk emits first the Destructuring Rule's one                       *)
(* "destructuring_with_optional" diagnostic at the declarator (and no      *)
(* per-property diagnostic: first match wins inside that rule only), and   *)
(* then, on visiting the initializer, the Optional-Chain Rule's one        *)
(* "optional_chaining" diagnostic at the initializer's span.               *)
(***************************************************************************)
C10_BothRulesReport ==
    (stack = <<>> /\ MatchedByBothRules) =>
        LET AtDeclarator(d) == d.span = <<>>
            AtInit(d) == d.span = <<2>>
            PerProperty(d) == d.kind = "destructuring"
        IN /\ Len(diags) >= 2
           /\ diags[1] = [kind |-> "destructuring_with_optional",
                          path |-> RefResolve(tree.init.v).path, span |-> <<>>]
           /\ diags[2].kind = "optional_chaining"
           /\ diags[2].span = <<2>>
           /\ Count(diags, AtDeclarator) = 1
           /\ Count(diags, AtInit) = 1
           /\ Count(diags, PerProperty) = 0

\* const { API_KEY } = process?.env with process.env protected, walked to the end
C10_Witness ==
    /\ stack = <<>>
    /\ MatchedByBothRules
    /\ tree.init.v = OptChain(Member(Ident("process"), PropIdent("env")))
    /\ tree.name = ObjectPat(<<Assign("API_KEY")>>)
    /\ config_paths = {"process.env"}
    /\ Len(diags) = 2

====
